---- MODULE Spec2Model ----
(***************************************************************************)
(* State-machine model of the SonarQube MCP server's transport clients,    *)
(* connection validator, endpoint operations and file-issue aggregator.    *)
(*                                                                         *)
(* The repository holds three transport clients:                           *)
(*   "base"     src/src/sonarqube/base.py    SonarQubeBase  (async httpx)  *)
(*   "httpx"    src/src/sonarqube/client.py  SonarQubeClient (sync httpx)  *)
(*   "requests" src/src/client/client.py     SonarQubeClient (requests)    *)
(* One client object is modelled; which class it is, is fixed by Init.     *)
(***************************************************************************)
EXTENDS Integers, Sequences, FiniteSets, TLC

VARIABLES
    impl,                \* the class of the client object
    base_url,            \* self.base_url
    token,               \* self.token
    connected,           \* self.connected (httpx, requests clients)
    session,             \* self._session / self.session: "none" or "open"
    connection_message,  \* self.connection_message
    version,             \* self.version
    authValid,           \* history: an auth-validation call answered {"valid": true}
    last,                \* history: the most recent operation
    agg                  \* the running get_file_issues_information call

vars == <<impl, base_url, token, connected, session, connection_message,
          version, authValid, last, agg>>

-----------------------------------------------------------------------------
(* Bounds of the model *)

\* the number of issue records a page of the issue search returns, at most
MaxIssues == 2

-----------------------------------------------------------------------------
(* Python values *)

\* a value that is not a dict carries this in its d field
NoDict == [none |-> TRUE]

Dict(d) == [t |-> "dict", d |-> d, s |-> "", b |-> FALSE]
Str(s) == [t |-> "str", d |-> NoDict, s |-> s, b |-> FALSE]
Bool(b) == [t |-> "bool", d |-> NoDict, s |-> "", b |-> b]
\* the unparsed httpx.Response object
ResponseObject == [t |-> "response", d |-> NoDict, s |-> "", b |-> FALSE]
\* an exception leaving the function; s names its class
Raise(exc) == [t |-> "raise", d |-> NoDict, s |-> exc, b |-> FALSE]
NoValue == [t |-> "none", d |-> NoDict, s |-> "", b |-> FALSE]

\* {}
EmptyDict == [k \in {} |-> TRUE]

\* {"error": kind, "details": details}
Err(kind, details) == Dict([error |-> kind, details |-> details])

\* isinstance(r, dict) and "error" in r
IsError(r) == r.t = "dict" /\ "error" \in DOMAIN r.d

\* d.get(k, default)
Get(d, k, default) == IF k \in DOMAIN d THEN d[k] ELSE default

-----------------------------------------------------------------------------
(* What the remote server, or the network, answers to one HTTP request *)

Response(status, json, parse, data, text) ==
    [k |-> "resp", status |-> status, json |-> json, parse |-> parse,
     data |-> data, text |-> text]
\* 2xx, Content-Type application/json, a body that parses to the dict data
Json(data) == Response(200, TRUE, TRUE, data, "{}")
\* 2xx, Content-Type application/json, a body that is not JSON
BadJson == Response(200, TRUE, FALSE, NoDict, "<html>")
\* 2xx, another Content-Type
Plain(text) == Response(200, FALSE, FALSE, NoDict, text)
HttpError(status) == Response(status, TRUE, TRUE, NoDict, "server says no")
TimedOut == [k |-> "timeout", status |-> 0, json |-> FALSE, parse |-> FALSE,
             data |-> NoDict, text |-> "timed out"]
ConnectError == [k |-> "connerr", status |-> 0, json |-> FALSE, parse |-> FALSE,
                 data |-> NoDict, text |-> "Connection refused"]
\* the HTTP library rejects the request with a ValueError
BadRequestValue == [k |-> "valueerr", status |-> 0, json |-> FALSE, parse |-> FALSE,
                    data |-> NoDict, text |-> "Bad input"]

HttpStatuses == {401, 404, 500, 503}

Failures == {HttpError(s) : s \in HttpStatuses}
            \cup {TimedOut, ConnectError, BadRequestValue, BadJson}

\* the outcome is a 2xx answer carrying what the caller asked for
Delivered(o, raw_response) ==
    /\ o.k = "resp"
    /\ o.status < 400
    /\ raw_response \/ (o.json /\ o.parse)

-----------------------------------------------------------------------------
(* Construction: the normalisation of the constructor's arguments *)

Impls == {"base", "httpx", "requests"}

RECURSIVE RStrip(_, _)
\* str.rstrip(ch)
RStrip(s, ch) ==
    IF Len(s) > 0 /\ SubSeq(s, Len(s), Len(s)) = ch
    THEN RStrip(SubSeq(s, 1, Len(s) - 1), ch)
    ELSE s

RECURSIVE LStrip(_, _)
LStrip(s, ch) ==
    IF Len(s) > 0 /\ SubSeq(s, 1, 1) = ch
    THEN LStrip(SubSeq(s, 2, Len(s)), ch)
    ELSE s

\* str.strip(): whitespace removed at both ends
Strip(s) == LStrip(RStrip(s, " "), " ")

\* __init__ of the three classes
InitBaseUrl(i, url) == IF i = "requests" THEN url ELSE RStrip(url, "/")
InitToken(i, tok) == IF i = "base" THEN Strip(tok) ELSE tok

UrlArgs == {"", "/", "http://sq/"}
TokenArgs == {"", " ", "tok"}

-----------------------------------------------------------------------------
(* The client object as a record, for the operators below *)

Client ==
    [impl |-> impl, base_url |-> base_url, token |-> token,
     connected |-> connected, session |-> session,
     connection_message |-> connection_message, version |-> version,
     authValid |-> authValid]

\* the query parameters of a request: a sequence of <<name, value>> pairs
NoParams == <<>>

\* one HTTP request sent: its endpoint, its query parameters, the outcome o
\* and what the request method made of it
Sent(ep, params, o, r) == [ep |-> ep, params |-> params, o |-> o, r |-> r]

\* the result of a method: what it returns or raises, the HTTP requests it
\* sent (in order), the object afterwards, and what the connection validator
\* returned or raised if the method ran it (NoValue if it did not)
Result(ret, calls, c, validation) ==
    [ret |-> ret, calls |-> calls, c |-> c, validation |-> validation]

TimeoutText == "Request timed out after 10.0 seconds"

-----------------------------------------------------------------------------
(* The try block of the three request methods: one HTTP request sent, its  *)
(* outcome o turned into the method's result                               *)

\* what both httpx clients make of a response that raise_for_status() passed
HttpxBody(o, raw_response) ==
    IF raw_response THEN Str(o.text)
    ELSE IF o.json THEN
        IF o.parse THEN Dict(o.data)
        ELSE Err("JSON serialization error", "JSON serialization error: " \o o.text)
    ELSE ResponseObject

\* SonarQubeBase._make_request, async httpx client
BaseSend(o, raw_response, health_check) ==
    IF o.k = "timeout" THEN Raise("TimeoutException")
    ELSE IF o.k = "connerr" THEN Err("Request failed", "Request failed: " \o o.text)
    ELSE IF o.k = "valueerr" THEN Err("Exception", "Unexpected error: " \o o.text)
    ELSE IF o.status >= 400 THEN
        IF o.status \notin {500, 502, 503, 504} \/ health_check
        THEN Err("HTTP " \o ToString(o.status),
                 "HTTP " \o ToString(o.status) \o ": " \o o.text)
        ELSE Raise("HTTPStatusError")
    ELSE HttpxBody(o, raw_response)

\* HttpxSend without response.raise_for_status()
HttpxSendUnchecked(o, raw_response) ==
    IF o.k = "timeout" THEN Err("Timeout", TimeoutText)
    ELSE IF o.k = "connerr" THEN Err("Request failed", "Request failed: " \o o.text)
    ELSE IF o.k = "valueerr" THEN Err("Exception", "Unexpected error: " \o o.text)
    ELSE HttpxBody(o, raw_response)

\* SonarQubeClient.__make_request, sync httpx client
HttpxSend(o, raw_response) ==
    IF o.k = "timeout" THEN Err("Timeout", TimeoutText)
    ELSE IF o.k = "connerr" THEN Err("Request failed", "Request failed: " \o o.text)
    ELSE IF o.k = "valueerr" THEN Err("Exception", "Unexpected error: " \o o.text)
    ELSE IF o.status >= 400 THEN
        Err("HTTP " \o ToString(o.status),
            "HTTP " \o ToString(o.status) \o ": " \o o.text)
    ELSE HttpxBody(o, raw_response)

\* SonarQubeClient.__make_request, requests client; requests.exceptions.Timeout
\* and ConnectionError are RequestException
RequestsSend(o, raw_response) ==
    IF o.k \in {"timeout", "connerr"} THEN Err("Request failed", o.text)
    ELSE IF o.k = "valueerr" THEN Err("Invalid request", o.text)
    ELSE IF o.status >= 400 THEN Err("HTTP " \o ToString(o.status), o.text)
    ELSE IF raw_response THEN Str(o.text)
    ELSE IF o.json THEN
        IF o.parse THEN Dict(o.data)
        ELSE Err("JSON serialization error", o.text)
    ELSE Dict([text |-> o.text])

-----------------------------------------------------------------------------
(* The connection validator *)

AuthEndpoint == "/api/authentication/validate"
UserEndpoint == "/api/users/current"
VersionEndpoint == "/api/server/version"

MissingMessage == "Missing SONARQUBE_URL or SONARQUBE_TOKEN"
InvalidAuthMessage == "Invalid authentication response from SonarQube"
ConnectedMessage(url) == "Connected to SonarQube server at " \o url
AuthenticatedMessage(url, user) ==
    ConnectedMessage(url) \o ". Authenticated as " \o Get(user, "login", "unknown user")

\* "not self.base_url or not self.token", the validator's first test, with
\* the token test left out
MissingUrlOnly(c) == c.base_url = ""

\* not self.base_url or not self.token
MissingCredentials(c) == c.base_url = "" \/ c.token = ""

\* the server answered the auth-validation call with {"valid": true}
SaysValid(o) ==
    Delivered(o, FALSE) /\ "valid" \in DOMAIN o.data /\ o.data["valid"] = TRUE

\* SonarQubeBase._validate_connection; oa, ou, ov are the outcomes of the
\* auth-validation, current-user and server-version requests
BaseValidateConnection(c, oa, ou, ov) ==
    IF MissingCredentials(c)
    THEN Result(Bool(FALSE), <<>>,
                [c EXCEPT !.connection_message = MissingMessage], Bool(FALSE))
    ELSE
    LET a == BaseSend(oa, FALSE, TRUE)
        sa == <<Sent(AuthEndpoint, NoParams, oa, a)>>
        c1 == [c EXCEPT !.authValid = @ \/ SaysValid(oa)]
    IN
    IF a.t = "raise" THEN Result(a, sa, c1, a)
    ELSE IF IsError(a)
    THEN Result(Bool(FALSE), sa,
                [c1 EXCEPT !.connection_message =
                    Get(a.d, "details", "Authentication validation failed.")],
                Bool(FALSE))
    ELSE IF ~(a.t = "dict" /\ Get(a.d, "valid", FALSE))
    THEN Result(Bool(FALSE), sa,
                [c1 EXCEPT !.connection_message = InvalidAuthMessage], Bool(FALSE))
    ELSE
    LET u == BaseSend(ou, FALSE, TRUE)
        su == sa \o <<Sent(UserEndpoint, NoParams, ou, u)>>
    IN
    IF u.t = "raise" THEN Result(u, su, c1, u)
    ELSE
    LET msg == IF u.t = "dict" /\ ~IsError(u)
               THEN AuthenticatedMessage(c.base_url, u.d)
               ELSE ConnectedMessage(c.base_url)
        \* the version fetch sits in try/except Exception
        v == BaseSend(ov, TRUE, TRUE)
    IN
    Result(Bool(TRUE), su \o <<Sent(VersionEndpoint, NoParams, ov, v)>>,
           [c1 EXCEPT !.connection_message = msg,
                      !.version = IF v.t = "str" THEN v.s ELSE @],
           Bool(TRUE))

\* SonarQubeClient.__validate_connection, sync httpx client
HttpxValidateConnection(c, oa, ou, ov) ==
    IF MissingCredentials(c)
    THEN Result(Bool(FALSE), <<>>,
                [c EXCEPT !.connection_message = MissingMessage], Bool(FALSE))
    ELSE
    LET a == HttpxSend(oa, FALSE)
        sa == <<Sent(AuthEndpoint, NoParams, oa, a)>>
        c1 == [c EXCEPT !.authValid = @ \/ SaysValid(oa)]
    IN
    IF IsError(a)
    THEN Result(Bool(FALSE), sa,
                [c1 EXCEPT !.connection_message =
                    Get(a.d, "details", "Authentication validation failed.")],
                Bool(FALSE))
    ELSE IF ~(a.t = "dict" /\ Get(a.d, "valid", FALSE))
    THEN Result(Bool(FALSE), sa,
                [c1 EXCEPT !.connection_message = InvalidAuthMessage], Bool(FALSE))
    ELSE
    LET u == HttpxSend(ou, FALSE)
        msg == IF u.t = "dict" /\ ~IsError(u)
               THEN AuthenticatedMessage(c.base_url, u.d)
               ELSE ConnectedMessage(c.base_url)
        v == HttpxSend(ov, TRUE)
    IN
    Result(Bool(TRUE),
           sa \o <<Sent(UserEndpoint, NoParams, ou, u), Sent(VersionEndpoint, NoParams, ov, v)>>,
           [c1 EXCEPT !.connection_message = msg,
                      !.version = IF v.t = "str" THEN v.s ELSE @,
                      !.connected = TRUE],
           Bool(TRUE))

\* SonarQubeClient.validate_connection, requests client
RequestsValidateConnection(c, oa, ou) ==
    IF MissingCredentials(c)
    THEN Result(Bool(FALSE), <<>>,
                [c EXCEPT !.connection_message = MissingMessage], Bool(FALSE))
    ELSE
    LET a == RequestsSend(oa, FALSE)
        sa == <<Sent(AuthEndpoint, NoParams, oa, a)>>
        c1 == [c EXCEPT !.authValid = @ \/ SaysValid(oa)]
    IN
    IF "error" \in DOMAIN a.d
    THEN Result(Bool(FALSE), sa,
                [c1 EXCEPT !.connection_message = a.d["details"]], Bool(FALSE))
    ELSE
    LET u == RequestsSend(ou, FALSE)
        msg == IF "error" \notin DOMAIN u.d
               THEN AuthenticatedMessage(c.base_url, u.d)
               ELSE ConnectedMessage(c.base_url)
    IN
    Result(Bool(TRUE), sa \o <<Sent(UserEndpoint, NoParams, ou, u)>>,
           [c1 EXCEPT !.connection_message = msg, !.connected = TRUE],
           Bool(TRUE))

-----------------------------------------------------------------------------
(* Session set-up *)

\* SonarQubeBase._setup: a session is opened (an open one is closed first),
\* then validated; a False validation closes it and raises ConnectionError,
\* an exception out of the validation leaves it as it is
BaseSetup(c, oa, ou, ov) ==
    LET After(v) ==
            IF v.ret.t = "raise" THEN v
            ELSE IF ~v.ret.b
            THEN Result(Raise("ConnectionError"), v.calls,
                        [v.c EXCEPT !.session = "none"], v.validation)
            ELSE Result(NoValue, v.calls, v.c, v.validation)
    IN After(BaseValidateConnection([c EXCEPT !.session = "open"], oa, ou, ov))

\* SonarQubeClient.__setup, sync httpx client: the validator's boolean is dropped
HttpxSetup(c, oa, ou, ov) ==
    LET After(v) == Result(NoValue, v.calls, v.c, v.validation)
    IN After(HttpxValidateConnection([c EXCEPT !.session = "open"], oa, ou, ov))

-----------------------------------------------------------------------------
(* The request methods, from their first line *)

NotHealthy == "SonarQube client is not healthy"

\* the readiness flag every request gates on
Ready(c) == IF c.impl = "base" THEN c.session = "open" ELSE c.connected

\* SonarQubeBase._make_request: without a session it runs _setup first, with
\* the outcomes su = <<oa, ou, ov>> of the validation requests
BaseMakeRequest(c, ep, params, o, raw_response, health_check, su) ==
    IF c.session = "none"
    THEN LET r == BaseSend(o, raw_response, health_check)
             After(s) ==
                 IF s.ret.t = "raise" THEN s
                 ELSE Result(r, s.calls \o <<Sent(ep, params, o, r)>>, s.c, s.validation)
         IN After(BaseSetup(c, su[1], su[2], su[3]))
    ELSE LET r == BaseSend(o, raw_response, health_check)
         IN Result(r, <<Sent(ep, params, o, r)>>, c, NoValue)

\* __make_request sending the request a second time when the first failed
HttpxMakeRequestRetrying(c, ep, params, o, raw_response, health_check) ==
    IF health_check /\ ~c.connected
    THEN Result(Err(NotHealthy, c.connection_message), <<>>, c, NoValue)
    ELSE LET r == HttpxSend(o, raw_response)
         IN Result(r, IF IsError(r)
                      THEN <<Sent(ep, params, o, r), Sent(ep, params, o, r)>>
                      ELSE <<Sent(ep, params, o, r)>>, c, NoValue)

\* SonarQubeClient.__make_request, sync httpx client (GET)
HttpxMakeRequest(c, ep, params, o, raw_response, health_check) ==
    IF health_check /\ ~c.connected
    THEN Result(Err(NotHealthy, c.connection_message), <<>>, c, NoValue)
    ELSE LET r == HttpxSend(o, raw_response)
         IN Result(r, <<Sent(ep, params, o, r)>>, c, NoValue)

\* SonarQubeClient.__make_request, requests client (GET)
RequestsMakeRequest(c, ep, params, o, raw_response, health_check) ==
    IF health_check /\ ~c.connected
    THEN Result(Err(NotHealthy, c.connection_message), <<>>, c, NoValue)
    ELSE LET r == RequestsSend(o, raw_response)
         IN Result(r, <<Sent(ep, params, o, r)>>, c, NoValue)

\* an endpoint operation's call of its client's request method, with the
\* method's default health_check
MakeRequest(c, ep, params, o, raw_response, su) ==
    CASE c.impl = "base" ->
             BaseMakeRequest(c, ep, params, o, raw_response, FALSE, su)
      [] c.impl = "httpx" ->
             HttpxMakeRequest(c, ep, params, o, raw_response, TRUE)
      [] c.impl = "requests" ->
             RequestsMakeRequest(c, ep, params, o, raw_response, TRUE)

-----------------------------------------------------------------------------
(* The outcomes the model draws for each request *)

AuthOutcomes ==
    {Json([valid |-> TRUE]), Json([valid |-> FALSE]), Plain("ok")} \cup Failures
UserOutcomes ==
    {Json([login |-> "alice"]), Json([name |-> "Alice"])} \cup Failures
VersionOutcomes == {Plain("10.4"), HttpError(503), TimedOut, ConnectError}
EndpointOutcomes ==
    {Json([components |-> "c"]), Plain("pong")} \cup Failures

\* the outcomes of a validation run; after a failed auth-validation request
\* no client sends another, and the outcomes of the other two are fixed
ValidationOutcomes ==
    {<<oa, ou, ov>> : oa \in AuthOutcomes \ Failures,
                      ou \in UserOutcomes, ov \in VersionOutcomes}
    \cup {<<oa, TimedOut, TimedOut>> : oa \in Failures}

NoSetup == <<TimedOut, TimedOut, TimedOut>>

\* three of the validation runs: the server accepts the token, rejects it,
\* or does not answer
FewValidationOutcomes ==
    {<<Json([valid |-> TRUE]), Json([login |-> "alice"]), Plain("10.4")>>,
     <<Json([valid |-> FALSE]), TimedOut, TimedOut>>,
     <<TimedOut, TimedOut, TimedOut>>}

\* the validation outcomes a request of client c needs
SetupOutcomesFor(c) ==
    IF c.impl = "base" /\ c.session = "none" THEN ValidationOutcomes ELSE {NoSetup}

\* the same from the three validation runs
FewSetupOutcomesFor(c) ==
    IF c.impl = "base" /\ c.session = "none" THEN FewValidationOutcomes ELSE {NoSetup}

-----------------------------------------------------------------------------
(* State *)

Idle == [pc |-> "idle"]

Done(op, r, ready) ==
    [op |-> op, ret |-> r.ret, calls |-> r.calls, validation |-> r.validation,
     ready |-> ready]

\* the object's fields after a method
Store(c) ==
    /\ connected' = c.connected
    /\ session' = c.session
    /\ connection_message' = c.connection_message
    /\ version' = c.version
    /\ authValid' = c.authValid
    /\ UNCHANGED <<impl, base_url, token>>

Init ==
    /\ impl \in Impls
    /\ \E u \in UrlArgs : base_url = InitBaseUrl(impl, u)
    /\ \E t \in TokenArgs : token = InitToken(impl, t)
    /\ connected = FALSE
    /\ session = "none"
    /\ connection_message = ""
    /\ version = ""
    /\ authValid = FALSE
    /\ last = Done("init", Result(NoValue, <<>>, Client, NoValue), FALSE)
    /\ agg = Idle

\* SonarQubeBase.create / _setup, and SonarQubeClient.create / __enter__ of
\* the sync httpx client
SetupWith(outcomes) ==
    /\ impl \in {"base", "httpx"}
    /\ agg.pc = "idle"
    /\ \E su \in outcomes :
         \E r \in {IF impl = "base"
                   THEN BaseSetup(Client, su[1], su[2], su[3])
                   ELSE HttpxSetup(Client, su[1], su[2], su[3])} :
            /\ Store(r.c)
            /\ last' = Done("setup", r, Ready(Client))
    /\ UNCHANGED agg

Setup == SetupWith(ValidationOutcomes)

\* validate_connection of the requests client
ValidateConnection ==
    /\ impl = "requests"
    /\ agg.pc = "idle"
    /\ \E su \in ValidationOutcomes :
         \E r \in {RequestsValidateConnection(Client, su[1], su[2])} :
            /\ Store(r.c)
            /\ last' = Done("validate", r, Ready(Client))
    /\ UNCHANGED agg

\* an endpoint operation that forwards one request and returns its result
EndpointCall ==
    /\ agg.pc = "idle"
    /\ \E raw_response \in BOOLEAN, o \in EndpointOutcomes,
          su \in SetupOutcomesFor(Client) :
         \E r \in {MakeRequest(Client, "/api/endpoint", NoParams, o, raw_response, su)} :
            /\ Store(r.c)
            /\ last' = Done("request", r, Ready(Client))
    /\ UNCHANGED agg

-----------------------------------------------------------------------------
(* Endpoint operations the aggregator calls; the mixin classes of          *)
(* src/src/sonarqube and the methods of the sync httpx client are the same *)
(* text over their client's request method                                 *)

InvalidParameters(details) == Err("Invalid parameters", details)

SearchEndpoint == "/api/issues/search"
RuleEndpoint == "/api/rules/show"
RawEndpoint == "/api/sources/raw"
SnippetEndpoint == "/api/sources/issue_snippets"

\* an optional argument: None, or a value
None == [some |-> FALSE, v |-> ""]
Some(x) == [some |-> TRUE, v |-> x]

\* an optional boolean argument left at None
NoBool == [some |-> FALSE, v |-> FALSE]

\* "if x": the argument is given and not empty
Truthy(x) == x.some /\ x.v # ""

\* the effective page number set to 1 whatever was asked for
ClampPageFirst(page) == 1

\* the effective page number: "if page < 1: page = 1"
ClampPage(page) == IF page < 1 THEN 1 ELSE page

\* the effective page size: "if page_size < 1: page_size = default", then
\* "if page_size > ceiling: page_size = ceiling"
ClampPageSize(page_size, default, ceiling) ==
    LET positive == IF page_size < 1 THEN default ELSE page_size
    IN IF positive > ceiling THEN ceiling ELSE positive

\* str.split(",") of a non-empty string
RECURSIVE Split(_)
Split(str) ==
    LET commas == {i \in 1..Len(str) : SubSeq(str, i, i) = ","}
    IN IF commas = {} THEN <<str>>
       ELSE LET i == CHOOSE i \in commas : \A j \in commas : i <= j
            IN <<SubSeq(str, 1, i - 1)>> \o Split(SubSeq(str, i + 1, Len(str)))

LowerCase == "abcdefghijklmnopqrstuvwxyz"
UpperCase == "ABCDEFGHIJKLMNOPQRSTUVWXYZ"

\* one character of str.upper() / str.lower()
Recase(ch, from, to) ==
    LET at == {i \in 1..Len(from) : SubSeq(from, i, i) = ch}
    IN IF at = {} THEN ch
       ELSE LET i == CHOOSE i \in at : TRUE IN SubSeq(to, i, i)

\* str.upper()
RECURSIVE Upper(_)
Upper(str) ==
    IF str = "" THEN ""
    ELSE Recase(SubSeq(str, 1, 1), LowerCase, UpperCase)
             \o Upper(SubSeq(str, 2, Len(str)))

\* str.lower()
RECURSIVE Lower(_)
Lower(str) ==
    IF str = "" THEN ""
    ELSE Recase(SubSeq(str, 1, 1), UpperCase, LowerCase)
             \o Lower(SubSeq(str, 2, Len(str)))

\* "x.upper() if x else None", "x.lower() if x else None"
UpperIf(x) == IF Truthy(x) THEN Some(Upper(x.v)) ELSE None
LowerIf(x) == IF Truthy(x) THEN Some(Lower(x.v)) ELSE None

\* "str(x).lower() if x is not None else None"
LowerStrIf(x) == IF x.some THEN Some(Lower(IF x.v THEN "True" ELSE "False")) ELSE None

\* "[(k, v) for k, v in params if v is not None]"
RECURSIVE DropNone(_)
DropNone(params) ==
    IF params = <<>> THEN <<>>
    ELSE IF params[1][2].some
         THEN <<<<params[1][1], params[1][2].v>>>> \o DropNone(Tail(params))
         ELSE DropNone(Tail(params))

\* the ceiling and the default of get_issues' page_size
IssuesPageSizeMax == 500
IssuesPageSizeDefault == 100

\* the query of get_issues: the filters in the code's order, one entry per
\* SCM account of authors after them, the None entries dropped (the filters
\* the model leaves at None are not listed; organization is None)
GetIssuesParams(additional_fields, assigned, authors, components, page, page_size, resolved, severities, tags) ==
    LET filters == << <<"additionalFields", LowerIf(additional_fields)>>,
                      <<"assigned", LowerStrIf(assigned)>>,
                      <<"components", components>>,
                      <<"p", Some(ClampPage(page))>>,
                      <<"ps", Some(ClampPageSize(page_size, IssuesPageSizeDefault,
                                                 IssuesPageSizeMax))>>,
                      <<"resolved", LowerStrIf(resolved)>>,
                      <<"severities", UpperIf(severities)>>,
                      <<"tags", tags>> >>
        accounts == IF Truthy(authors) THEN Split(authors.v) ELSE <<>>
    IN DropNone(filters \o [i \in DOMAIN accounts |-> <<"author", Some(accounts[i])>>])

\* get_issues handing on the response without its paging entry
GetIssuesNoPaging(c, additional_fields, assigned, authors, components, page, page_size, resolved, severities, tags, o, su) ==
    LET Stripped(r) ==
            IF r.ret.t = "dict" /\ "paging" \in DOMAIN r.ret.d
            THEN Result(Dict([issues |-> r.ret.d["issues"]]),
                        r.calls, r.c, r.validation)
            ELSE r
    IN Stripped(MakeRequest(c, SearchEndpoint,
                            GetIssuesParams(additional_fields, assigned, authors,
                                            components, page, page_size, resolved,
                                            severities, tags),
                            o, FALSE, su))

\* get_issues of the async client and of the sync httpx client
GetIssues(c, additional_fields, assigned, authors, components, page, page_size, resolved, severities, tags, o, su) ==
    MakeRequest(c, SearchEndpoint,
                GetIssuesParams(additional_fields, assigned, authors, components,
                                page, page_size, resolved, severities, tags),
                o, FALSE, su)

\* the query of get_rule_details(rule_key), actives left at its default
RuleParams(rule_key) == <<<<"key", rule_key>>, <<"actives", "false">>>>

\* get_rule_details unwrapping the "rule" entry of whatever the request gave
GetRuleDetailsUnwrapped(c, rule_key, o, su) ==
    LET Unwrapped(r) == Result(Dict([rule |-> Get(r.ret.d, "rule", EmptyDict)]),
                               r.calls, r.c, r.validation)
    IN Unwrapped(MakeRequest(c, RuleEndpoint, RuleParams(rule_key), o, FALSE, su))

\* get_rule_details(rule_key)
GetRuleDetails(c, rule_key, o, su) ==
    IF rule_key = "" \/ Strip(rule_key) = ""
    THEN Result(InvalidParameters("rule_key must be a non-empty string"),
                <<>>, c, NoValue)
    ELSE MakeRequest(c, RuleEndpoint, RuleParams(rule_key), o, FALSE, su)

\* get_source_raw answering an empty text where the request failed or raised
GetSourceRawQuiet(c, file_key, o, su) ==
    LET Quiet(r) ==
            IF r.ret.t = "raise" \/ IsError(r.ret)
            THEN Result(Str(""), r.calls, r.c, r.validation)
            ELSE r
    IN Quiet(MakeRequest(c, RawEndpoint, <<<<"key", file_key>>>>, o, TRUE, su))

\* get_source_raw(file_key)
GetSourceRaw(c, file_key, o, su) ==
    IF file_key = ""
    THEN Result(InvalidParameters("File key must not be empty"), <<>>, c, NoValue)
    ELSE MakeRequest(c, RawEndpoint, <<<<"key", file_key>>>>, o, TRUE, su)

\* get_source_issue_snippets answering an empty payload where the request
\* failed or raised
GetSourceIssueSnippetsQuiet(c, issue_key, o, su) ==
    LET Quiet(r) ==
            IF r.ret.t = "raise" \/ IsError(r.ret)
            THEN Result(Dict(EmptyDict), r.calls, r.c, r.validation)
            ELSE r
    IN Quiet(MakeRequest(c, SnippetEndpoint, <<<<"issueKey", issue_key>>>>, o, FALSE, su))

\* get_source_issue_snippets(issue_key)
GetSourceIssueSnippets(c, issue_key, o, su) ==
    IF issue_key = "" \/ Strip(issue_key) = ""
    THEN Result(InvalidParameters("issue_key must be a non-empty string"),
                <<>>, c, NoValue)
    ELSE MakeRequest(c, SnippetEndpoint, <<<<"issueKey", issue_key>>>>, o, FALSE, su)

-----------------------------------------------------------------------------
(* The file-issue aggregator, get_file_issues_information.  Its body is    *)
(* not among the source files (only its callers are); it is modelled from  *)
(* section 4.4 of the specification, one step per remote call.             *)

\* no line: the start and end of a snippet sub-record that was not filled
NoLine == 0

EmptySnippet == [start |-> NoLine, end |-> NoLine, code |-> <<>>]

\* "<project_key>:<file_path>"
ComponentKey(project_key, file_path) == project_key \o ":" \o file_path

\* the remote server's data for the model's runs
IssueKey(i) == "I" \o ToString(i)
RuleKeyOf(i) == "java:S" \o ToString(((i - 1) % 2) + 1)
IssuePage(n) ==
    [i \in 1..n |-> [key |-> IssueKey(i), rule |-> RuleKeyOf(i), line |-> 10 * i]]

SourceOutcomes == {Plain("class A {}")} \cup Failures
\* page p, of size ps, of the n issues the server holds
PageOf(n, p, ps) ==
    LET first == (p - 1) * ps + 1
        last_ == IF p * ps < n THEN p * ps ELSE n
    IN IF first > last_ THEN <<>> ELSE SubSeq(IssuePage(n), first, last_)

\* the answers to a search for page p of size ps by a server that holds
\* held issues during the run and reports total matching issues, which may
\* be more than it gives out
SearchOutcomes(p, ps, held) ==
    {Json([issues |-> PageOf(held, p, ps), paging |-> [total |-> total]]) :
        total \in held..MaxIssues}
    \cup {Plain("ok")} \cup Failures
RuleOutcomes(rule_key) ==
    {Json([rule |-> [key |-> rule_key, name |-> "a rule"]]), Plain("ok")}
    \cup Failures
SnippetLineLists == {<<>>, <<40, 12, 25>>, <<25, 40, 12>>}
SnippetOutcomes(component) ==
    {Json(component :> [sources |-> lines]) : lines \in SnippetLineLists}
    \cup {Json(EmptyDict), Plain("ok")} \cup Failures

\* a sub-fetch failed: it raised, returned an error descriptor, or returned
\* something that is not the payload asked for
FetchFailed(ret, raw_response) ==
    \/ ret.t = "raise"
    \/ IsError(ret)
    \/ ret.t # (IF raw_response THEN "str" ELSE "dict")

SourceError(component) == "Failed to fetch source of " \o component
SearchError(component) == "Failed to fetch issues of " \o component
RuleError(rule_key) == "Failed to fetch rule " \o rule_key
SnippetError(issue_key) == "Failed to fetch snippets of issue " \o issue_key

\* the line of the first entry of the response
FirstLine(lines) == lines[1]

RECURSIVE MinLine(_)
MinLine(lines) ==
    IF Len(lines) = 1 THEN lines[1]
    ELSE LET m == MinLine(Tail(lines))
         IN IF lines[1] < m THEN lines[1] ELSE m

RECURSIVE MaxLine(_)
MaxLine(lines) ==
    IF Len(lines) = 1 THEN lines[1]
    ELSE LET m == MaxLine(Tail(lines))
         IN IF lines[1] > m THEN lines[1] ELSE m

\* the line numbers a snippet response d holds for the component
LinesServed(d, component) ==
    IF component \in DOMAIN d THEN d[component]["sources"] ELSE <<>>

\* the snippet sub-record for a snippet response d
SnippetRecord(d, component) ==
    LET lines == Get(Get(d, component, EmptyDict), "sources", <<>>)
    IN IF lines = <<>> THEN EmptySnippet
       ELSE [start |-> MinLine(lines), end |-> MaxLine(lines), code |-> lines]

\* the fixed subset of fields copied out of a rule response d
RuleRecord(d) == Get(d, "rule", EmptyDict)

EndpointsOf(calls) == [i \in DOMAIN calls |-> calls[i].ep]

\* the request for endpoint ep was sent by r and answered with what was asked
Answered(r, ep, raw_response) ==
    \E i \in DOMAIN r.calls :
        r.calls[i].ep = ep /\ Delivered(r.calls[i].o, raw_response)

\* steps 1-2: the inputs are checked, the report shell is built
AggStart ==
    /\ impl \in {"base", "httpx"}
    /\ agg.pc = "idle"
    /\ \E project_key \in {"", "proj"}, file_path \in {"", "src/a.py"},
          include_source \in BOOLEAN, held \in 0..MaxIssues :
         IF project_key = "" \/ file_path = ""
         THEN /\ last' = Done("aggregate",
                              Result(InvalidParameters(
                                       "project_key and file_path must not be empty"),
                                     <<>>, Client, NoValue),
                              Ready(Client))
              /\ UNCHANGED agg
         ELSE /\ agg' = [pc |-> IF include_source THEN "source" ELSE "search",
                         component |-> ComponentKey(project_key, file_path),
                         include_source |-> include_source,
                         report |-> [project_key |-> project_key,
                                     file_path |-> file_path,
                                     full_source |-> "",
                                     issues |-> <<>>,
                                     total_issues |-> 0,
                                     errors |-> <<>>],
                         held |-> held,
                         p |-> 1,
                         page |-> <<>>,
                         reported |-> 0,
                         lastServed |-> 0,
                         cur |-> EmptyDict,
                         calls |-> <<>>,
                         served |-> 0,
                         sourceFailed |-> FALSE,
                         searchFailed |-> FALSE,
                         ruleFailed |-> <<>>,
                         snippetFailed |-> <<>>,
                         snippetLines |-> <<>>]
              /\ last' = Done("aggregate", Result(NoValue, <<>>, Client, NoValue),
                              Ready(Client))
    /\ UNCHANGED <<impl, base_url, token, connected, session,
                   connection_message, version, authValid>>

\* step 3: the raw source, when asked for
AggSource ==
    /\ agg.pc = "source"
    /\ \E o \in SourceOutcomes, su \in SetupOutcomesFor(Client) :
         \E r \in {GetSourceRaw(Client, agg.component, o, su)} :
         LET failed == FetchFailed(r.ret, TRUE)
         IN /\ Store(r.c)
            /\ agg' = [agg EXCEPT
                 !.pc = "search",
                 !.calls = @ \o EndpointsOf(r.calls),
                 !.sourceFailed = ~Answered(r, RawEndpoint, TRUE),
                 !.report.full_source = IF failed THEN "" ELSE r.ret.s,
                 !.report.errors =
                     IF failed THEN Append(@, SourceError(agg.component)) ELSE @]
    /\ UNCHANGED last

\* the page size the aggregator asks for
AggPageSize == 1

\* step 4: the issue retrieval loop, one page per step, until the pages hold
\* as many issues as the server reports or a page comes back empty; a failed
\* search ends the run
AggSearch ==
    /\ agg.pc = "search"
    /\ \E o \in SearchOutcomes(ClampPage(agg.p),
                               ClampPageSize(AggPageSize, IssuesPageSizeDefault,
                                             IssuesPageSizeMax),
                               agg.held),
          su \in SetupOutcomesFor(Client) :
         \E r \in {GetIssues(Client, Some("_all"), NoBool, None, Some(agg.component),
                             agg.p, AggPageSize, NoBool, None, None, o, su)} :
         LET failed == FetchFailed(r.ret, FALSE)
             answered == Answered(r, SearchEndpoint, FALSE)
             page == agg.page \o Get(r.ret.d, "issues", <<>>)
             total == Get(Get(r.ret.d, "paging", EmptyDict), "total", 0)
             more == /\ ~failed
                     /\ Get(r.ret.d, "issues", <<>>) # <<>>
                     /\ Len(page) < total
         IN /\ Store(r.c)
            /\ agg' = [agg EXCEPT
                 !.pc = IF failed THEN "done"
                        ELSE IF more THEN "search"
                        ELSE IF page = <<>> THEN "done" ELSE "rule",
                 !.p = IF more THEN @ + 1 ELSE @,
                 !.calls = @ \o EndpointsOf(r.calls),
                 !.searchFailed = ~answered,
                 !.served = IF answered THEN @ + Len(o.data["issues"]) ELSE @,
                 !.reported = IF answered THEN o.data["paging"]["total"] ELSE @,
                 !.lastServed = IF answered THEN Len(o.data["issues"]) ELSE @,
                 !.page = IF failed THEN <<>> ELSE page,
                 !.report.total_issues = IF failed THEN 0 ELSE total,
                 !.report.errors =
                     IF failed THEN Append(@, SearchError(agg.component)) ELSE @]
    /\ UNCHANGED last

\* the issue the run is enriching
CurrentIssue == agg.page[Len(agg.report.issues) + 1]

\* step 5a: the rule of the current issue
AggRule ==
    /\ agg.pc = "rule"
    /\ \E o \in RuleOutcomes(CurrentIssue.rule), su \in SetupOutcomesFor(Client) :
         \E r \in {GetRuleDetails(Client, CurrentIssue.rule, o, su)} :
         LET failed == FetchFailed(r.ret, FALSE)
         IN /\ Store(r.c)
            /\ agg' = [agg EXCEPT
                 !.pc = "snippet",
                 !.calls = @ \o EndpointsOf(r.calls),
                 !.ruleFailed = Append(@, ~Answered(r, RuleEndpoint, FALSE)),
                 !.cur = [key |-> CurrentIssue.key,
                          line |-> CurrentIssue.line,
                          rule_key |-> CurrentIssue.rule,
                          rule |-> IF failed THEN EmptyDict ELSE RuleRecord(r.ret.d),
                          snippet |-> EmptySnippet],
                 !.report.errors =
                     IF failed THEN Append(@, RuleError(CurrentIssue.rule)) ELSE @]
    /\ UNCHANGED last

\* steps 5b-5c: the snippets of the current issue; the record is appended
AggSnippet ==
    /\ agg.pc = "snippet"
    /\ \E o \in SnippetOutcomes(agg.component), su \in SetupOutcomesFor(Client) :
         \E r \in {GetSourceIssueSnippets(Client, agg.cur.key, o, su)} :
         LET failed == FetchFailed(r.ret, FALSE)
             record == [agg.cur EXCEPT
                          !.snippet = IF failed THEN EmptySnippet
                                      ELSE SnippetRecord(r.ret.d, agg.component)]
         IN /\ Store(r.c)
            /\ agg' = [agg EXCEPT
                 !.pc = IF Len(agg.report.issues) + 1 = Len(agg.page)
                        THEN "done" ELSE "rule",
                 !.calls = @ \o EndpointsOf(r.calls),
                 !.snippetFailed = Append(@, ~Answered(r, SnippetEndpoint, FALSE)),
                 !.snippetLines =
                     Append(@, IF Answered(r, SnippetEndpoint, FALSE)
                               THEN LinesServed(o.data, agg.component)
                               ELSE <<>>),
                 !.cur = EmptyDict,
                 !.report.issues = Append(@, record),
                 !.report.errors =
                     IF failed THEN Append(@, SnippetError(agg.cur.key)) ELSE @]
    /\ UNCHANGED last

\* step 6: agg.report is returned to the caller and the run is over
AggReturn ==
    /\ agg.pc = "done"
    /\ agg' = Idle
    /\ UNCHANGED <<impl, base_url, token, connected, session,
                   connection_message, version, authValid, last>>

Next ==
    \/ Setup
    \/ ValidateConnection
    \/ EndpointCall
    \/ AggStart
    \/ AggSource
    \/ AggSearch
    \/ AggRule
    \/ AggSnippet
    \/ AggReturn

Spec == Init /\ [][Next]_vars

-----------------------------------------------------------------------------
(* The tools over the clients' endpoint operations: src/src/tools over the *)
(* async client, src/src/server.py over the sync httpx client              *)

\* what an operation leaves behind, with the arguments it was called with
DoneWith(op, args, r, ready) ==
    [op |-> op, args |-> args, ret |-> r.ret, calls |-> r.calls,
     validation |-> r.validation, ready |-> ready]

\* an optional integer argument left at None
NoInt == [some |-> FALSE, v |-> 0]

SourceShowEndpoint == "/api/sources/show"

\* the line range forwarded as given
LineRangeUnchecked(start, end) == [from |-> start, to |-> end]

\* the line range of get_source and get_scm_info: a start below 1 is dropped,
\* an end below 1 or below the start drops both
LineRange(start, end) ==
    LET from == IF start.some /\ start.v < 1 THEN NoInt ELSE start
        bad == end.some /\ (end.v < 1 \/ (from.some /\ end.v < from.v))
    IN [from |-> IF bad THEN NoInt ELSE from, to |-> IF bad THEN NoInt ELSE end]

\* get_source(file_key, start, end) of the async and the sync httpx client
GetSource(c, file_key, start, end, o, su) ==
    IF file_key = ""
    THEN Result(InvalidParameters("File key must not be empty"), <<>>, c, NoValue)
    ELSE MakeRequest(c, SourceShowEndpoint,
                     DropNone(<< <<"key", Some(file_key)>>,
                                 <<"from", LineRange(start, end).from>>,
                                 <<"to", LineRange(start, end).to>> >>),
                     o, FALSE, su)

\* get_scm_info(file_key, start, end, commits_by_line) of the async and the
\* sync httpx client
GetScmInfo(c, file_key, start, end, commits_by_line, o, su) ==
    IF file_key = ""
    THEN Result(InvalidParameters("File key must not be empty"), <<>>, c, NoValue)
    ELSE MakeRequest(c, "/api/sources/scm",
                     DropNone(<< <<"key", Some(file_key)>>,
                                 <<"from", LineRange(start, end).from>>,
                                 <<"to", LineRange(start, end).to>>,
                                 <<"commits_by_line", commits_by_line>> >>),
                     o, FALSE, su)

\* f"{project_key}:{file_path}" of the file-addressed tools
ToolFileKey(project_key, file_path) == project_key \o ":" \o file_path

\* the tool get_source(project_key, file_path)
ToolGetSource ==
    /\ impl \in {"base", "httpx"}
    /\ agg.pc = "idle"
    /\ \E project_key \in {"", "proj"}, file_path \in {"", "src/a.py"},
          o \in {Json([sources |-> <<1, 2>>]), HttpError(404), TimedOut},
          su \in FewSetupOutcomesFor(Client) :
         \E r \in {GetSource(Client, ToolFileKey(project_key, file_path),
                              NoInt, NoInt, o, su)} :
            /\ Store(r.c)
            /\ last' = DoneWith("get_source",
                                [project_key |-> project_key, file_path |-> file_path],
                                r, Ready(Client))
    /\ UNCHANGED agg

\* start and end arguments: left out, below 1, and from 1 on
LineArgs == {NoInt} \cup {[some |-> TRUE, v |-> n] : n \in {-1, 0, 1, 2, 3}}

\* the tool get_source(project_key, file_path, start, end)
ToolGetSourceLines ==
    /\ impl \in {"base", "httpx"}
    /\ agg.pc = "idle"
    /\ \E start \in LineArgs, end \in LineArgs,
          o \in {Json([sources |-> <<1, 2>>]), TimedOut},
          su \in FewSetupOutcomesFor(Client) :
         \E r \in {GetSource(Client, ToolFileKey("proj", "src/a.py"), start, end, o, su)} :
            /\ Store(r.c)
            /\ last' = DoneWith("get_source",
                                [project_key |-> "proj", file_path |-> "src/a.py",
                                 start |-> start, end |-> end],
                                r, Ready(Client))
    /\ UNCHANGED agg

\* the tool get_scm_info(project_key, file_path, start, end), commits_by_line
\* at its default False
ToolGetScmInfo ==
    /\ impl \in {"base", "httpx"}
    /\ agg.pc = "idle"
    /\ \E start \in LineArgs, end \in LineArgs,
          o \in {Json([sources |-> <<1, 2>>]), TimedOut},
          su \in FewSetupOutcomesFor(Client) :
         \E r \in {GetScmInfo(Client, ToolFileKey("proj", "src/a.py"), start, end,
                               [some |-> TRUE, v |-> FALSE], o, su)} :
            /\ Store(r.c)
            /\ last' = DoneWith("get_scm_info",
                                [project_key |-> "proj", file_path |-> "src/a.py",
                                 start |-> start, end |-> end],
                                r, Ready(Client))
    /\ UNCHANGED agg

\* the <<page, page_size>> arguments the model calls the paginated
\* operations with: below the minimum, inside the range, above each ceiling
PagingArgs == {<<0, 0>>, <<1, 1>>, <<2, 21>>, <<1, 501>>}

\* the answers drawn for a paginated search
PagedOutcomes == {Json([paging |-> [total |-> 0]]), TimedOut}

RulesSearchEndpoint == "/api/rules/search"
HotspotsSearchEndpoint == "/api/hotspots/search"
ProjectsSearchEndpoint == "/api/projects/search"

\* the ceiling and the default of get_rules' page_size in the async client
RulesPageSizeMax == 20
RulesPageSizeDefault == 20

\* the ceiling in the sync httpx client (its default is 100)
HttpxRulesPageSizeMax == 500

\* get_rules of the async client; the sync httpx client has its own page
\* sizes and no languages filter
GetRules(c, page, page_size, severities, statuses, languages, types, o, su) ==
    IF c.impl = "httpx"
    THEN MakeRequest(c, RulesSearchEndpoint,
                     DropNone(<< <<"p", Some(ClampPage(page))>>,
                                 <<"ps", Some(ClampPageSize(page_size,
                                                            100,
                                                            HttpxRulesPageSizeMax))>>,
                                 <<"severities", UpperIf(severities)>>,
                                 <<"statuses", UpperIf(statuses)>>,
                                 <<"types", UpperIf(types)>> >>),
                     o, FALSE, su)
    ELSE MakeRequest(c, RulesSearchEndpoint,
                     DropNone(<< <<"p", Some(ClampPage(page))>>,
                                 <<"ps", Some(ClampPageSize(page_size,
                                                            RulesPageSizeDefault,
                                                            RulesPageSizeMax))>>,
                                 <<"severities", UpperIf(severities)>>,
                                 <<"statuses", UpperIf(statuses)>>,
                                 <<"languages", LowerIf(languages)>>,
                                 <<"types", UpperIf(types)>> >>),
                     o, FALSE, su)

\* the maximum the documentation of get_project_hotspots gives for
\* page_size, and the default
HotspotsPageSizeMax == 500
HotspotsPageSizeDefault == 100

\* "not s or not s.strip()", spaces standing for all white space
Blank(str) == \A i \in 1..Len(str) : SubSeq(str, i, i) = " "

\* get_project_hotspots of the async and the sync httpx client, file_paths
\* left at None: page_size has a lower check only, resolution and status
\* go out as given
GetProjectHotspots(c, project_key, only_mine, page, page_size, resolution, status, o, su) ==
    IF Blank(project_key)
    THEN Result(InvalidParameters("project_key must be a non-empty string"),
                <<>>, c, NoValue)
    ELSE MakeRequest(c, HotspotsSearchEndpoint,
                     DropNone(<< <<"project", Some(project_key)>>,
                                 <<"files", None>>,
                                 <<"onlyMine", LowerStrIf(only_mine)>>,
                                 <<"p", Some(ClampPage(page))>>,
                                 <<"ps", Some(IF page_size < 1
                                              THEN HotspotsPageSizeDefault
                                              ELSE page_size)>>,
                                 <<"resolution", resolution>>,
                                 <<"status", status>> >>),
                     o, FALSE, su)

\* health_status_map.get(h, health_status_map[None])
HealthStatusMap(h) ==
    CASE h = "GREEN" -> "SonarQube is fully operational"
      [] h = "YELLOW" -> "SonarQube is usable, but it needs attention in order to be fully operational"
      [] h = "RED" -> "SonarQube is not operational"
      [] OTHER -> "Unknown health status"

\* the description of d.get("health"); a missing value reads as unknown
HealthOf(d) == HealthStatusMap(Get(d, "health", ""))

\* get_system_health of the async and the sync httpx client. The value under
\* "nodes" is [list, items], list telling whether it is a list; an item is
\* [dict, d], dict telling whether it is a mapping. The loop over the nodes
\* assigns node["health_status"] also in its else branch, where the node is
\* no mapping
GetSystemHealth(c, o, su) ==
    LET After(m) ==
            IF m.ret.t = "raise" \/ IsError(m.ret) THEN m
            ELSE IF m.ret.t # "dict"
            THEN Result(Err("Invalid response",
                            "Invalid response format from /api/system/health"
                                \o ": expected dict, got <class 'httpx.Response'>"),
                        m.calls, m.c, m.validation)
            ELSE LET d == ("health_status" :> HealthOf(m.ret.d)) @@ m.ret.d
                     nodes == IF "nodes" \in DOMAIN d /\ d["nodes"].list
                              THEN d["nodes"].items ELSE <<>>
                 IN IF \E i \in DOMAIN nodes : ~nodes[i].dict
                    THEN Result(Raise("TypeError"), m.calls, m.c, m.validation)
                    ELSE IF nodes = <<>>
                    THEN Result(Dict(d), m.calls, m.c, m.validation)
                    ELSE Result(Dict(("nodes" :>
                                   [list |-> TRUE,
                                    items |-> [i \in DOMAIN nodes |->
                                       [dict |-> TRUE,
                                        d |-> ("health_status" :> HealthOf(nodes[i].d))
                                                  @@ nodes[i].d]]]) @@ d),
                                m.calls, m.c, m.validation)
    IN After(MakeRequest(c, "/api/system/health", NoParams, o, FALSE, su))

\* system_ping: the async and the sync httpx client answer False to an error
\* descriptor and to anything that is not a string, and compare the text with
\* "pong"; the requests client evaluates
\* `self.connected and "pong" == response.lower()`
SystemPing(c, o, su) ==
    LET After(m) ==
            IF m.ret.t = "raise" THEN m
            ELSE IF c.impl = "requests"
            THEN IF ~c.connected
                 THEN Result(Bool(FALSE), m.calls, m.c, m.validation)
                 ELSE IF m.ret.t = "str"
                 THEN Result(Bool("pong" = Lower(m.ret.s)), m.calls, m.c, m.validation)
                 ELSE Result(Raise("AttributeError"), m.calls, m.c, m.validation)
            ELSE IF IsError(m.ret) \/ m.ret.t # "str"
            THEN Result(Bool(FALSE), m.calls, m.c, m.validation)
            ELSE Result(Bool("pong" = m.ret.s), m.calls, m.c, m.validation)
    IN After(MakeRequest(c, "/api/system/ping", NoParams, o, TRUE, su))

\* get_quality_gates_project_status: the sync httpx client refuses the call
\* unless exactly one of project_key and analysis_id is given; the async
\* client has no such check and sends what is truthy ("x if x else None")
GetQualityGatesProjectStatus(c, project_key, analysis_id, branch, o, su) ==
    IF c.impl = "httpx"
    THEN IF (~project_key.some) = (~analysis_id.some)
         THEN Result(InvalidParameters("Exactly one of analysis_id or project_key must be provided."),
                     <<>>, c, NoValue)
         ELSE MakeRequest(c, "/api/qualitygates/project_status",
                          DropNone(<< <<"projectKey", project_key>>,
                                      <<"analysisId", analysis_id>>,
                                      <<"branch", branch>> >>),
                          o, FALSE, su)
    ELSE MakeRequest(c, "/api/qualitygates/project_status",
                     DropNone(<< <<"projectKey", IF Truthy(project_key) THEN project_key ELSE None>>,
                                 <<"analysisId", IF Truthy(analysis_id) THEN analysis_id ELSE None>>,
                                 <<"branch", branch>> >>),
                     o, FALSE, su)

\* list_projects(page, page_size) of the requests client, its filters and
\* the organization left at None: page and page_size go out as given
ListProjects(c, page, page_size, o, su) ==
    MakeRequest(c, ProjectsSearchEndpoint,
                DropNone(<< <<"analyzedBefore", None>>,
                            <<"organization", None>>,
                            <<"p", Some(page)>>,
                            <<"ps", Some(page_size)>>,
                            <<"q", None>> >>),
                o, FALSE, su)

\* get_issues of the requests client: its first statement subscripts the
\* local params before anything is assigned to it
RequestsGetIssues(c) == Result(Raise("UnboundLocalError"), <<>>, c, NoValue)

\* the arguments the model calls get_issues with: the paging cases without
\* filters, the filter cases on the first page
IssuesArgs ==
    {[additional_fields |-> None, assigned |-> NoBool, authors |-> None,
      resolved |-> NoBool, severities |-> None, tags |-> None,
      page |-> pp[1], page_size |-> pp[2]] : pp \in PagingArgs}
    \cup {[additional_fields |-> None, assigned |-> NoBool, authors |-> authors,
           resolved |-> NoBool, severities |-> severities, tags |-> tags,
           page |-> 1, page_size |-> 1] :
         authors \in {None, Some(""), Some("ann"), Some("bob,ann")},
         severities \in {None, Some("major,Minor")},
         tags \in {None, Some("a,b")}}
    \cup {[additional_fields |-> additional_fields, assigned |-> assigned,
           authors |-> None, resolved |-> resolved, severities |-> None,
           tags |-> tags, page |-> 1, page_size |-> 1] :
         additional_fields \in {None, Some("Comments,_ALL")},
         assigned \in {NoBool, Some(FALSE), Some(TRUE)},
         resolved \in {NoBool, Some(FALSE)},
         tags \in {None, Some("")}}

\* get_issues
GetIssuesCall ==
    /\ agg.pc = "idle"
    /\ \E a \in IssuesArgs, o \in PagedOutcomes, su \in FewSetupOutcomesFor(Client) :
         \E r \in {IF impl = "requests"
                   THEN RequestsGetIssues(Client)
                   ELSE GetIssues(Client, a.additional_fields, a.assigned, a.authors,
                                  None, a.page, a.page_size, a.resolved,
                                  a.severities, a.tags, o, su)} :
            /\ Store(r.c)
            /\ last' = DoneWith("get_issues", a, r, Ready(Client))
    /\ UNCHANGED agg

\* the arguments the model calls get_rules with: the paging cases without
\* filters, the filter cases on the first page
RulesArgs ==
    {[severities |-> None, statuses |-> None, languages |-> None, types |-> None,
      page |-> pp[1], page_size |-> pp[2]] : pp \in PagingArgs}
    \cup {[severities |-> severities, statuses |-> Some("Ready"),
           languages |-> languages, types |-> Some("bug,Code_Smell"),
           page |-> 1, page_size |-> 1] :
         severities \in {None, Some(""), Some("major,Minor")},
         languages \in {None, Some("Java,JS")}}

\* get_rules
GetRulesCall ==
    /\ impl \in {"base", "httpx"}
    /\ agg.pc = "idle"
    /\ \E a \in RulesArgs, o \in PagedOutcomes, su \in FewSetupOutcomesFor(Client) :
         /\ impl = "httpx" => ~a.languages.some
         /\ \E r \in {GetRules(Client, a.page, a.page_size, a.severities, a.statuses,
                                 a.languages, a.types, o, su)} :
               /\ Store(r.c)
               /\ last' = DoneWith("get_rules", a, r, Ready(Client))
    /\ UNCHANGED agg

\* the arguments the model calls get_project_hotspots with: the paging
\* cases on a project, an empty and a blank project key
HotspotsArgs ==
    {[project_key |-> "proj", only_mine |-> NoBool, resolution |-> None,
      status |-> None, page |-> pp[1], page_size |-> pp[2]] : pp \in PagingArgs}
    \cup {[project_key |-> k, only_mine |-> NoBool, resolution |-> None,
           status |-> None, page |-> 1, page_size |-> 1] : k \in {"", " "}}
    \cup {[project_key |-> "proj", only_mine |-> only_mine, resolution |-> None,
           status |-> status, page |-> 1, page_size |-> 1] :
         only_mine \in {NoBool, Some(FALSE), Some(TRUE)},
         status \in {None, Some("to_review")}}

\* get_project_hotspots
GetProjectHotspotsCall ==
    /\ impl \in {"base", "httpx"}
    /\ agg.pc = "idle"
    /\ \E a \in HotspotsArgs, o \in PagedOutcomes, su \in FewSetupOutcomesFor(Client) :
         \E r \in {GetProjectHotspots(Client, a.project_key, a.only_mine, a.page,
                                      a.page_size, a.resolution, a.status, o, su)} :
            /\ Store(r.c)
            /\ last' = DoneWith("get_project_hotspots", a, r, Ready(Client))
    /\ UNCHANGED agg

\* list_projects of the requests client
ListProjectsCall ==
    /\ impl = "requests"
    /\ agg.pc = "idle"
    /\ \E pp \in PagingArgs, o \in PagedOutcomes, su \in FewSetupOutcomesFor(Client) :
         \E r \in {ListProjects(Client, pp[1], pp[2], o, su)} :
            /\ Store(r.c)
            /\ last' = DoneWith("list_projects", [page |-> pp[1], page_size |-> pp[2]],
                                r, Ready(Client))
    /\ UNCHANGED agg

\* create / _setup under one of the three validation runs
\* the tool get_quality_gates_project_status (branch left at None)
GetQualityGatesProjectStatusCall ==
    /\ impl \in {"base", "httpx"}
    /\ agg.pc = "idle"
    /\ \E analysis_id \in {None, Some("AU-1")},
          project_key \in {None, Some(""), Some("my_project")},
          o \in {Json([projectStatus |-> [status |-> "OK"]]), HttpError(404), TimedOut},
          su \in FewSetupOutcomesFor(Client) :
         \E a \in {[analysis_id |-> analysis_id, project_key |-> project_key]},
            r \in {GetQualityGatesProjectStatus(Client, project_key, analysis_id, None, o, su)} :
            /\ Store(r.c)
            /\ last' = DoneWith("get_quality_gates_project_status", a, r, Ready(Client))
    /\ UNCHANGED agg

\* system_ping of the three clients (the tool returns its result as it is)
SystemPingCall ==
    /\ agg.pc = "idle"
    /\ \E o \in {Plain("pong"), Plain("Pong"), Plain("ok"), HttpError(503), TimedOut},
          su \in FewSetupOutcomesFor(Client) :
         \E r \in {SystemPing(Client, o, su)} :
            /\ Store(r.c)
            /\ last' = DoneWith("system_ping", [none |-> TRUE], r, Ready(Client))
    /\ UNCHANGED agg

\* answers to /api/system/health: payloads with well-formed nodes, without
\* nodes, with a nodes value that is no list and with a node that is no
\* mapping; a non-JSON answer and two failures
HealthOutcomes ==
    {Json([health |-> "GREEN",
           nodes |-> [list |-> TRUE,
                      items |-> <<[dict |-> TRUE, d |-> [name |-> "n1", health |-> "GREEN"]],
                                  [dict |-> TRUE, d |-> [name |-> "n2", health |-> "PURPLE"]],
                                  [dict |-> TRUE, d |-> [name |-> "n3"]]>>]]),
     Json([health |-> "YELLOW", causes |-> "disk"]),
     Json([health |-> "PURPLE"]),
     Json([causes |-> "none"]),
     Json([health |-> "RED", nodes |-> [list |-> FALSE, items |-> <<>>]]),
     Json([health |-> "GREEN",
           nodes |-> [list |-> TRUE,
                      items |-> <<[dict |-> TRUE, d |-> [health |-> "RED"]],
                                  [dict |-> FALSE, d |-> NoDict]>>]]),
     Plain("ok"), HttpError(404), TimedOut}

\* get_system_health of the async and the sync httpx client (the tool returns
\* its result as it is)
GetSystemHealthCall ==
    /\ impl \in {"base", "httpx"}
    /\ agg.pc = "idle"
    /\ \E o \in HealthOutcomes, su \in FewSetupOutcomesFor(Client) :
         \E r \in {GetSystemHealth(Client, o, su)} :
            /\ Store(r.c)
            /\ last' = DoneWith("get_system_health", [none |-> TRUE], r, Ready(Client))
    /\ UNCHANGED agg

FewSetup == SetupWith(FewValidationOutcomes)

\* the clients under their endpoint operations alone
QueryNext ==
    \/ FewSetup
    \/ ValidateConnection
    \/ ToolGetSource
    \/ GetIssuesCall
    \/ GetRulesCall
    \/ GetProjectHotspotsCall
    \/ ListProjectsCall
    \/ GetQualityGatesProjectStatusCall
    \/ SystemPingCall
    \/ GetSystemHealthCall

QuerySpec == Init /\ [][QueryNext]_vars

\* the file tools called with line ranges
LinesSpec == Init /\ [][FewSetup \/ ToolGetSourceLines \/ ToolGetScmInfo]_vars

-----------------------------------------------------------------------------
(* The aggregator with its sub-fetches issued concurrently, as section 5   *)
(* of the specification allows: after the issue retrieval the rule lookup  *)
(* and the snippet lookup of every issue, and the source fetch, complete   *)
(* in any order; each result goes to the slot of its issue and the report  *)
(* is assembled when none is pending.  A sub-fetch is <<kind, issue>>.     *)

SourceTask == <<"source", 0>>
Lookups(n) == {<<kind, j>> : kind \in {"rule", "snippet"}, j \in 1..n}

\* the answers drawn for the concurrent sub-fetches
ConcSourceOutcomes == {Plain("class A {}"), TimedOut}
ConcRuleOutcomes(rule_key) ==
    {Json([rule |-> [key |-> rule_key, name |-> "a rule"]]), HttpError(404), TimedOut}
ConcSnippetOutcomes(component) ==
    {Json(component :> [sources |-> <<40, 12, 25>>]), HttpError(404)}

\* the slot after those of the lookups of its kind that have completed
NextFreeSlot(task, a) ==
    1 + Cardinality({j \in DOMAIN a.page : <<task[1], j>> \notin a.pending})

\* the slot a completed lookup's result is stored in: that of its issue
SlotOf(task, a) == task[2]

\* steps 1-2 on a client that is ready, then the source fetch is issued
ConcStart ==
    /\ impl \in {"base", "httpx"}
    /\ Ready(Client)
    /\ agg.pc = "idle"
    /\ \E include_source \in BOOLEAN, held \in 0..MaxIssues :
         agg' = [pc |-> "search",
                 component |-> ComponentKey("proj", "src/a.py"),
                 include_source |-> include_source,
                 report |-> [project_key |-> "proj",
                             file_path |-> "src/a.py",
                             full_source |-> "",
                             issues |-> <<>>,
                             total_issues |-> 0,
                             errors |-> <<>>],
                 held |-> held,
                 p |-> 1,
                 page |-> <<>>,
                 reported |-> 0,
                 lastServed |-> 0,
                 calls |-> <<>>,
                 served |-> 0,
                 sourceFailed |-> FALSE,
                 searchFailed |-> FALSE,
                 ruleFailed |-> <<>>,
                 snippetFailed |-> <<>>,
                 snippetLines |-> <<>>,
                 slots |-> <<>>,
                 pending |-> IF include_source THEN {SourceTask} ELSE {}]
    /\ last' = Done("aggregate", Result(NoValue, <<>>, Client, NoValue), Ready(Client))
    /\ UNCHANGED <<impl, base_url, token, connected, session,
                   connection_message, version, authValid>>

\* step 3, completing at any time of the run
ConcSource ==
    /\ agg.pc # "idle"
    /\ SourceTask \in agg.pending
    /\ \E o \in ConcSourceOutcomes, su \in SetupOutcomesFor(Client) :
         \E r \in {GetSourceRaw(Client, agg.component, o, su)} :
         LET failed == FetchFailed(r.ret, TRUE)
         IN /\ Store(r.c)
            /\ agg' = [agg EXCEPT
                 !.pending = @ \ {SourceTask},
                 !.sourceFailed = ~Answered(r, RawEndpoint, TRUE),
                 !.report.full_source = IF failed THEN "" ELSE r.ret.s,
                 !.report.errors =
                     IF failed THEN Append(@, SourceError(agg.component)) ELSE @]
    /\ UNCHANGED last

\* step 5 begins: one slot per retrieved issue, its two lookups issued
ConcFork ==
    /\ agg.pc = "rule"
    /\ agg' = [agg EXCEPT
         !.pc = "fanout",
         !.pending = @ \cup Lookups(Len(agg.page)),
         !.slots = [j \in DOMAIN agg.page |->
                      [key |-> agg.page[j].key,
                       line |-> agg.page[j].line,
                       rule_key |-> agg.page[j].rule,
                       rule |-> EmptyDict,
                       snippet |-> EmptySnippet]],
         !.ruleFailed = [j \in DOMAIN agg.page |-> FALSE],
         !.snippetFailed = [j \in DOMAIN agg.page |-> FALSE],
         !.snippetLines = [j \in DOMAIN agg.page |-> <<>>]]
    /\ UNCHANGED <<impl, base_url, token, connected, session,
                   connection_message, version, authValid, last>>

\* step 5a of some issue completes
ConcRule ==
    /\ agg.pc = "fanout"
    /\ \E task \in agg.pending :
         /\ task[1] = "rule"
         /\ \E o \in ConcRuleOutcomes(agg.page[task[2]].rule),
               su \in SetupOutcomesFor(Client) :
              \E r \in {GetRuleDetails(Client, agg.page[task[2]].rule, o, su)} :
              LET failed == FetchFailed(r.ret, FALSE)
              IN /\ Store(r.c)
                 /\ agg' = [agg EXCEPT
                      !.pending = @ \ {task},
                      !.ruleFailed[task[2]] = ~Answered(r, RuleEndpoint, FALSE),
                      !.slots[SlotOf(task, agg)].rule =
                          IF failed THEN EmptyDict ELSE RuleRecord(r.ret.d),
                      !.report.errors =
                          IF failed
                          THEN Append(@, RuleError(agg.page[task[2]].rule))
                          ELSE @]
    /\ UNCHANGED last

\* step 5b of some issue completes
ConcSnippet ==
    /\ agg.pc = "fanout"
    /\ \E task \in agg.pending :
         /\ task[1] = "snippet"
         /\ \E o \in ConcSnippetOutcomes(agg.component),
               su \in SetupOutcomesFor(Client) :
              \E r \in {GetSourceIssueSnippets(Client, agg.page[task[2]].key, o, su)} :
              LET failed == FetchFailed(r.ret, FALSE)
              IN /\ Store(r.c)
                 /\ agg' = [agg EXCEPT
                      !.pending = @ \ {task},
                      !.snippetFailed[task[2]] = ~Answered(r, SnippetEndpoint, FALSE),
                      !.snippetLines[task[2]] =
                          IF Answered(r, SnippetEndpoint, FALSE)
                          THEN LinesServed(o.data, agg.component)
                          ELSE <<>>,
                      !.slots[SlotOf(task, agg)].snippet =
                          IF failed THEN EmptySnippet
                          ELSE SnippetRecord(r.ret.d, agg.component),
                      !.report.errors =
                          IF failed
                          THEN Append(@, SnippetError(agg.page[task[2]].key))
                          ELSE @]
    /\ UNCHANGED last

\* step 5c for all issues at once, when no sub-fetch is pending
ConcAssemble ==
    /\ agg.pc = "fanout"
    /\ agg.pending = {}
    /\ agg' = [agg EXCEPT !.pc = "done", !.report.issues = agg.slots]
    /\ UNCHANGED <<impl, base_url, token, connected, session,
                   connection_message, version, authValid, last>>

\* step 6
ConcReturn ==
    /\ agg.pc = "done"
    /\ agg.pending = {}
    /\ agg' = Idle
    /\ UNCHANGED <<impl, base_url, token, connected, session,
                   connection_message, version, authValid, last>>

ConcNext ==
    \/ FewSetup
    \/ ConcStart
    \/ ConcSource
    \/ AggSearch
    \/ ConcFork
    \/ ConcRule
    \/ ConcSnippet
    \/ ConcAssemble
    \/ ConcReturn

ConcurrentSpec == Init /\ [][ConcNext]_vars

-----------------------------------------------------------------------------
(* Properties of the transport clients and the connection validator *)

\* the requests the most recent operation sent
LastCalls == {last.calls[i] : i \in DOMAIN last.calls}

\* the most recent operation ran the connection validator
Validated == last.validation # NoValue

\* C3: in every transport client, a request that is not part of the
\* validation sequence and finds the readiness flag false returns the
\* "not ready" error descriptor at once: it sends nothing, does not re-run
\* the validation and does not raise.
C3_NotReadyIsRefused ==
    (last.op = "request" /\ ~last.ready) =>
        /\ IsError(last.ret)
        /\ last.ret.d["error"] = NotHealthy
        /\ last.calls = <<>>
        /\ ~Validated

\* C4: the connection is validated only after an auth-validation call that
\* succeeded and reported the token as valid.
C4_ConnectedOnlyAfterValidAuth == connected => authValid

\* C5: a validation run with an empty token or an empty base URL leaves the
\* connection unvalidated, returns False and sends no request at all.
C5_EmptyCredentialsSendNothing ==
    (base_url = "" \/ token = "") =>
        /\ ~Ready(Client)
        /\ ~authValid
        /\ Validated => (last.validation = Bool(FALSE) /\ last.calls = <<>>)

\* a validation run has happened on a client built with an empty token
C5_Witness ==
    /\ token = ""
    /\ base_url # ""
    /\ Validated
    /\ connection_message = MissingMessage

\* C6: every HTTP 4xx or 5xx answer, on validation calls and ordinary calls
\* alike, is returned as an error descriptor of kind "HTTP <code>" with a
\* details string; nothing is raised.
C6_HttpErrorsAreReturned ==
    \A e \in LastCalls :
        (e.o.k = "resp" /\ e.o.status >= 400) =>
            /\ IsError(e.r)
            /\ e.r.d["error"] = "HTTP " \o ToString(e.o.status)
            /\ "details" \in DOMAIN e.r.d

\* C7: every value a transport request returns is the expected payload
\* (parsed JSON, or raw text) or a mapping with an error kind and a details
\* string; nothing else, such as an unparsed response object, is returned.
C7_PayloadOrErrorDescriptor ==
    \A e \in LastCalls :
        e.r.t # "raise" =>
            \/ e.r.t = "str"
            \/ e.r.t = "dict" /\ ~IsError(e.r)
            \/ IsError(e.r) /\ "details" \in DOMAIN e.r.d

\* C8: a timeout of the HTTP call gives, on every call path of a transport
\* client, an error descriptor of kind "Timeout" or the re-raised exception,
\* never another error kind.
C8_TimeoutKind ==
    \A e \in LastCalls :
        e.o.k = "timeout" =>
            \/ e.r.t = "raise"
            \/ IsError(e.r) /\ e.r.d["error"] = "Timeout"

\* the auth-validation step of the most recent validation run succeeded
AuthStepSucceeded ==
    /\ Validated
    /\ Len(last.calls) >= 1
    /\ last.calls[1].ep = AuthEndpoint
    /\ SaysValid(last.calls[1].o)

\* C9: once the auth-validation step has succeeded the transition to
\* validated completes, whatever the current-user call and the version fetch
\* come to: the status message names the login when the current-user call
\* succeeded and is the generic "Connected to SonarQube server at <url>"
\* message otherwise.
C9_ValidationCompletes ==
    AuthStepSucceeded =>
        /\ last.validation = Bool(TRUE)
        /\ Ready(Client)
        /\ Len(last.calls) >= 2
        /\ last.calls[2].ep = UserEndpoint
        /\ connection_message =
             IF Delivered(last.calls[2].o, FALSE)
             THEN AuthenticatedMessage(base_url, last.calls[2].o.data)
             ELSE ConnectedMessage(base_url)

\* C10: after any sequence of validation runs on a client with a connected
\* flag, the boolean the most recent run returned equals the flag, and the
\* status message is not empty.
C10_ReturnedBooleanIsConnected ==
    (impl \in {"httpx", "requests"} /\ Validated) =>
        /\ last.validation.b = connected
        /\ connection_message # ""

-----------------------------------------------------------------------------
(* Properties of the file-issue aggregator.  In agg, served is the number  *)
(* of issues the remote server returned, and sourceFailed, searchFailed,   *)
(* ruleFailed[i] and snippetFailed[i] tell that the remote call was not    *)
(* answered with the payload asked for.                                    *)

AggDone == agg.pc = "done"

FailedRules == {i \in DOMAIN agg.ruleFailed : agg.ruleFailed[i]}
FailedSnippets == {i \in DOMAIN agg.snippetFailed : agg.snippetFailed[i]}

IsRuleError(e) == \E i \in 1..MaxIssues + 1 : e = RuleError(RuleKeyOf(i))

\* C1: when the issue search returns N issues and exactly one issue's rule
\* lookup fails, the report holds all N issue records in the order served,
\* the rule sub-record of the failing issue is empty, and errors holds
\* exactly one entry for a rule, naming that rule key; it is the only entry
\* of errors if no other lookup failed.
C1_OneRuleLookupFails ==
    (AggDone /\ ~agg.searchFailed /\ Cardinality(FailedRules) = 1) =>
        LET i == CHOOSE i \in FailedRules : TRUE
            names == <<RuleError(RuleKeyOf(i))>>
        IN /\ Len(agg.report.issues) = agg.served
           /\ \A j \in 1..agg.served : agg.report.issues[j].key = IssueKey(j)
           /\ agg.report.issues[i].rule = EmptyDict
           /\ \A j \in 1..agg.served :
                j # i => agg.report.issues[j].rule # EmptyDict
           /\ SelectSeq(agg.report.errors, IsRuleError) = names
           /\ (~agg.sourceFailed /\ FailedSnippets = {}) =>
                agg.report.errors = names

\* a finished run over two served issues in which the second rule lookup,
\* and nothing else, failed
C1_Witness ==
    /\ AggDone
    /\ agg.served = 2
    /\ FailedRules = {2}
    /\ agg.include_source
    /\ ~agg.sourceFailed
    /\ FailedSnippets = {}

\* C2: when the issue-search call fails the run ends at once: the report has
\* no issue records, total_issues 0 and an errors entry for the failed
\* search, and no rule or snippet lookup is sent; no other failure ends the
\* run before every served issue has its record.
C2_OnlySearchFailureEndsRun ==
    /\ (agg.pc # "idle" /\ agg.searchFailed) =>
          /\ AggDone
          /\ agg.report.issues = <<>>
          /\ agg.report.total_issues = 0
          /\ \E i \in DOMAIN agg.report.errors :
                agg.report.errors[i] = SearchError(agg.component)
          /\ \A i \in DOMAIN agg.calls :
                agg.calls[i] \notin {RuleEndpoint, SnippetEndpoint}
    /\ (AggDone /\ ~agg.searchFailed) =>
          Len(agg.report.issues) = agg.served

\* a run ended by a search request that was sent and failed, after a source
\* fetch that succeeded
C2_Witness ==
    /\ AggDone
    /\ agg.searchFailed
    /\ agg.calls = <<RawEndpoint, SearchEndpoint>>
    /\ agg.report.full_source # ""

\* s is an initial part of t
IsPrefix(s, t) == Len(s) <= Len(t) /\ SubSeq(t, 1, Len(s)) = s

InErrors(e) == \E i \in DOMAIN agg.report.errors : agg.report.errors[i] = e

\* C11: during an aggregator run the errors sequence only grows, each value
\* extending the one before; and an issue whose rule lookup or snippet lookup
\* failed stays in the report, in its place, with that sub-record empty and
\* the failure appended to errors.
C11_ErrorsAccumulate ==
    /\ [][(agg.pc # "idle" /\ agg'.pc # "idle") =>
             IsPrefix(agg.report.errors, agg'.report.errors)]_vars
    /\ [](agg.pc # "idle" =>
             /\ Len(agg.report.issues) = Len(agg.snippetFailed)
             /\ \A j \in DOMAIN agg.report.issues :
                   /\ agg.report.issues[j].key = IssueKey(j)
                   /\ j \in FailedRules =>
                         /\ agg.report.issues[j].rule = EmptyDict
                         /\ InErrors(RuleError(RuleKeyOf(j)))
                   /\ j \in FailedSnippets =>
                         /\ agg.report.issues[j].snippet = EmptySnippet
                         /\ InErrors(SnippetError(IssueKey(j))))

\* a finished run in which the source fetch failed, then the first issue lost
\* both its lookups and the second issue none
C11_Witness ==
    /\ AggDone
    /\ agg.sourceFailed
    /\ agg.ruleFailed = <<TRUE, FALSE>>
    /\ agg.snippetFailed = <<TRUE, FALSE>>
    /\ Len(agg.report.errors) = 3
    /\ Len(agg.report.issues) = 2

InCalls(ep) == \E i \in DOMAIN agg.calls : agg.calls[i] = ep

\* C12: the raw-source fetch never ends the run.  When the source was asked
\* for and its fetch failed, full_source stays empty, errors holds the
\* source-fetch entry, and the issue search and the enrichment of every served
\* issue still take place; when the source was not asked for, full_source is
\* empty, no source request is sent and errors holds no source-fetch entry.
C12_SourceFetchNeverFatal ==
    /\ (agg.pc # "idle" /\ agg.include_source /\ agg.sourceFailed) =>
          /\ agg.report.full_source = ""
          /\ InErrors(SourceError(agg.component))
          /\ (AggDone /\ ~agg.searchFailed) =>
                /\ InCalls(SearchEndpoint)
                /\ Len(agg.report.issues) = agg.served
                /\ Len(agg.ruleFailed) = agg.served
    /\ (agg.pc # "idle" /\ ~agg.include_source) =>
          /\ agg.report.full_source = ""
          /\ ~InCalls(RawEndpoint)
          /\ ~InErrors(SourceError(agg.component))

\* a finished run whose source request was sent and failed, and whose two
\* served issues were enriched all the same
C12_Witness ==
    /\ AggDone
    /\ agg.include_source
    /\ agg.sourceFailed
    /\ InCalls(RawEndpoint)
    /\ agg.served = 2
    /\ FailedRules = {}
    /\ FailedSnippets = {}

\* a finished run that was not asked for the source
C12_WitnessNoSource ==
    AggDone /\ ~agg.include_source /\ agg.served = 2

\* the issue search was sent and every search request of the run was answered
SearchSucceeded ==
    /\ agg.pc \in {"rule", "snippet", "done"}
    /\ InCalls(SearchEndpoint)
    /\ ~agg.searchFailed

\* C13: whenever the issue search succeeds, total_issues is the total of the
\* server's paging metadata, whichever per-issue lookups fail afterwards and
\* also when the report holds fewer issue records than that total.
C13_TotalIsServerCount ==
    SearchSucceeded => agg.report.total_issues = agg.reported

\* a finished run: the server reported two issues and gave out one, whose
\* rule lookup failed
C13_Witness ==
    /\ AggDone
    /\ SearchSucceeded
    /\ agg.reported = 2
    /\ Len(agg.report.issues) = 1
    /\ FailedRules = {1}

\* the search requests of the run
SearchRequests == {i \in DOMAIN agg.calls : agg.calls[i] = SearchEndpoint}

LineSet(j) == {agg.snippetLines[j][i] : i \in DOMAIN agg.snippetLines[j]}

\* C15: the snippet sub-record of every issue has as start the least and as
\* end the greatest of the line numbers the server sent for it, in whatever
\* order they came, and holds them all; after a failed lookup or an empty
\* snippet set it is {start: none, end: none, code: empty}.
C15_SnippetRange ==
    agg.pc # "idle" =>
        \A j \in DOMAIN agg.report.issues :
            LET snippet == agg.report.issues[j].snippet
            IN IF LineSet(j) = {}
               THEN snippet = EmptySnippet
               ELSE /\ snippet.start \in LineSet(j)
                    /\ snippet.end \in LineSet(j)
                    /\ \A line \in LineSet(j) :
                          snippet.start <= line /\ line <= snippet.end
                    /\ snippet.code = agg.snippetLines[j]

\* a finished run: the first issue's snippet lines came as 40, 12, 25, the
\* second's snippet lookup failed
C15_Witness ==
    /\ AggDone
    /\ Len(agg.report.issues) = 2
    /\ agg.snippetLines[1] = <<40, 12, 25>>
    /\ agg.report.issues[1].snippet.start = 12
    /\ agg.report.issues[1].snippet.end = 40
    /\ agg.snippetFailed = <<FALSE, TRUE>>
    /\ agg.report.issues[2].snippet = EmptySnippet

\* the record the report is due for issue j, from what the server answered
\* to the lookups of issue j
ExpectedRecord(j) ==
    [key |-> IssueKey(j),
     line |-> 10 * j,
     rule_key |-> RuleKeyOf(j),
     rule |-> IF agg.ruleFailed[j] THEN EmptyDict
              ELSE [key |-> RuleKeyOf(j), name |-> "a rule"],
     snippet |-> IF LineSet(j) = {} THEN EmptySnippet
                 ELSE [start |-> CHOOSE m \in LineSet(j) : \A x \in LineSet(j) : m <= x,
                       end |-> CHOOSE m \in LineSet(j) : \A x \in LineSet(j) : x <= m,
                       code |-> agg.snippetLines[j]]]

\* C16: with the sub-fetches issued concurrently, the report gets its issue
\* records only when no sub-fetch is pending, and the records, their order
\* and their rule and snippet sub-records are those the answers to each
\* issue's own lookups determine, in whatever order the lookups completed.
C16_CompletionOrderUnobservable ==
    /\ (agg.pc # "idle" /\ agg.report.issues # <<>>) => agg.pending = {}
    /\ (AggDone /\ SearchSucceeded /\ agg.pending = {}) =>
          /\ Len(agg.report.issues) = agg.served
          /\ \A j \in DOMAIN agg.report.issues :
                agg.report.issues[j] = ExpectedRecord(j)

\* a finished concurrent run over two issues: the snippet lookup of the
\* second issue failed before the rule lookup of the first one did
C16_Witness ==
    /\ AggDone
    /\ SearchSucceeded
    /\ agg.pending = {}
    /\ Len(agg.report.issues) = 2
    /\ agg.report.errors = <<SnippetError(IssueKey(2)), RuleError(RuleKeyOf(1))>>
    /\ agg.report.issues[1].rule = EmptyDict
    /\ agg.report.issues[2].snippet = EmptySnippet

\* the descriptor of an invalid input
IsInvalidInput(ret) == IsError(ret) /\ ret.d["error"] = "Invalid parameters"

\* C17: a file-addressed tool called with an empty project key or an empty
\* file path returns an invalid-input error descriptor and sends no request.
C17_EmptyKeyIsRefused ==
    (last.op = "get_source"
       /\ (last.args.project_key = "" \/ last.args.file_path = "")) =>
        /\ IsInvalidInput(last.ret)
        /\ last.calls = <<>>

\* the values of the query parameters called name, in the order sent
ParamValues(params, name) ==
    LET named == SelectSeq(params, LAMBDA kv : kv[1] = name)
    IN [i \in DOMAIN named |-> named[i][2]]

\* the endpoint of each paginated operation
PagedEndpoint ==
    [get_issues |-> SearchEndpoint,
     get_rules |-> RulesSearchEndpoint,
     get_project_hotspots |-> HotspotsSearchEndpoint,
     list_projects |-> ProjectsSearchEndpoint]

\* the queries the last operation sent to its own endpoint
PagedQueries ==
    {last.calls[i].params : i \in {j \in DOMAIN last.calls :
                                     last.calls[j].ep = PagedEndpoint[last.op]}}

\* the ceiling each operation documents for page_size
PageSizeCeiling ==
    [get_issues |-> IssuesPageSizeMax,
     get_rules |-> IF impl = "httpx" THEN HttpxRulesPageSizeMax ELSE RulesPageSizeMax,
     get_project_hotspots |-> HotspotsPageSizeMax]

\* C18: the ps parameter a paginated operation sends never exceeds the
\* ceiling documented for it, and is the ceiling when the page_size asked
\* for is above it.
C18_PageSizeClampedToCeiling ==
    last.op \in DOMAIN PageSizeCeiling =>
        \A q \in PagedQueries :
            /\ ParamValues(q, "ps")[1] <= PageSizeCeiling[last.op]
            /\ last.args.page_size > PageSizeCeiling[last.op] =>
                   ParamValues(q, "ps")[1] = PageSizeCeiling[last.op]

\* C19: the p and ps parameters a paginated operation sends are at least 1,
\* whatever page and page_size were asked for.
C19_PagingClampedToMinimum ==
    last.op \in DOMAIN PagedEndpoint =>
        \A q \in PagedQueries :
            /\ ParamValues(q, "p")[1] >= 1
            /\ ParamValues(q, "ps")[1] >= 1

\* C20: get_issues on a ready client with an authors filter sends a search
\* whose author parameters are the filter's accounts, one each and in the
\* filter's order, and whose severities and tags are one parameter each,
\* holding the comma-joined list.
C20_OneAuthorParameterPerAccount ==
    (last.op = "get_issues" /\ last.ready /\ Truthy(last.args.authors)) =>
        /\ PagedQueries # {}
        /\ \A q \in PagedQueries :
              /\ ParamValues(q, "author") = Split(last.args.authors.v)
              /\ last.args.severities.some =>
                     ParamValues(q, "severities") = <<Upper(last.args.severities.v)>>
              /\ last.args.tags.some =>
                     ParamValues(q, "tags") = <<last.args.tags.v>>

\* the query q has a parameter called name
Present(q, name) == ParamValues(q, name) # <<>>

\* an optional boolean filter is in q exactly when given, as true or false
BooleanSent(q, name, x) ==
    /\ Present(q, name) <=> x.some
    /\ x.some => ParamValues(q, name) = <<IF x.v THEN "true" ELSE "false">>

\* C21: the query an endpoint operation sends on a ready client has a
\* parameter exactly when a value was supplied for it: a filter left out or
\* empty is not in the query, and a boolean filter given as False is sent as
\* false.
C21_ParameterSentWhenSupplied ==
    /\ (last.op = "get_issues" /\ last.ready) =>
          /\ PagedQueries # {}
          /\ \A q \in PagedQueries :
                /\ BooleanSent(q, "assigned", last.args.assigned)
                /\ BooleanSent(q, "resolved", last.args.resolved)
                /\ Present(q, "additionalFields") <=> Truthy(last.args.additional_fields)
                /\ Present(q, "author") <=> Truthy(last.args.authors)
                /\ Present(q, "severities") <=> Truthy(last.args.severities)
                /\ Present(q, "tags") <=> Truthy(last.args.tags)
                /\ ~Present(q, "components")
    /\ (last.op = "get_project_hotspots" /\ last.ready
          /\ ~Blank(last.args.project_key)) =>
          /\ PagedQueries # {}
          /\ \A q \in PagedQueries :
                /\ BooleanSent(q, "onlyMine", last.args.only_mine)
                /\ Present(q, "status") <=> Truthy(last.args.status)
                /\ ~Present(q, "resolution")
                /\ ~Present(q, "files")

\* an enum filter that was given is in q in the case the server expects
Cased(q, name, x, expected) ==
    Truthy(x) => ParamValues(q, name) = <<expected>>

\* C22: in the query an endpoint operation sends, status, severity and type
\* filters are in upper case and language and additional-field filters in
\* lower case, whatever case they were given in.
C22_EnumFiltersCased ==
    /\ last.op = "get_issues" =>
          \A q \in PagedQueries :
              /\ Cased(q, "severities", last.args.severities,
                       Upper(last.args.severities.v))
              /\ Cased(q, "additionalFields", last.args.additional_fields,
                       Lower(last.args.additional_fields.v))
    /\ last.op = "get_rules" =>
          \A q \in PagedQueries :
              /\ Cased(q, "severities", last.args.severities,
                       Upper(last.args.severities.v))
              /\ Cased(q, "statuses", last.args.statuses, Upper(last.args.statuses.v))
              /\ Cased(q, "types", last.args.types, Upper(last.args.types.v))
              /\ Cased(q, "languages", last.args.languages,
                       Lower(last.args.languages.v))
    /\ last.op = "get_project_hotspots" =>
          \A q \in PagedQueries :
              Cased(q, "status", last.args.status, Upper(last.args.status.v))

\* the string s ends with the string t
EndsWith(s, t) == Len(s) >= Len(t) /\ SubSeq(s, Len(s) - Len(t) + 1, Len(s)) = t

\* the request method returned an error descriptor of this kind whose
\* details end with the text of the exception
FailedAs(e, kind) ==
    /\ IsError(e.r)
    /\ e.r.d["error"] = kind
    /\ EndsWith(e.r.d["details"], e.o.text)

\* C23: no request makes the transport raise; a 2xx JSON response whose body
\* is not JSON gives the kind "JSON serialization error" (or the raw text,
\* where that was asked for), a connection failure gives "Request failed"
\* and a ValueError while issuing the request gives "Invalid request", each
\* with the exception text in details.
C23_FailureClassesHaveTheirKind ==
    \A e \in LastCalls :
        /\ e.r.t # "raise"
        /\ e.o = BadJson => (FailedAs(e, "JSON serialization error") \/ e.r = Str(e.o.text))
        /\ e.o.k = "connerr" => FailedAs(e, "Request failed")
        /\ e.o.k = "valueerr" => FailedAs(e, "Invalid request")

ConnectionState == <<connected, session, connection_message, version>>

\* C25: the connection state (readiness flag and session, status message,
\* server version) is set by the validation step of the construction, and an
\* endpoint operation that follows leaves it as it was, whether its request
\* succeeds or fails.
C25_RequestsLeaveConnectionState ==
    [][(last.op = "setup" /\ last'.op = "request") => UNCHANGED ConnectionState]_vars

\* C26: get_quality_gates_project_status called on a ready client with both
\* or with neither of analysis_id and project_key returns the
\* invalid-parameters descriptor and sends no request.
C26_ExactlyOneOfAnalysisAndProject ==
    (/\ last.op = "get_quality_gates_project_status"
     /\ last.ready
     /\ last.args.analysis_id.some = last.args.project_key.some)
        => (/\ IsInvalidInput(last.ret)
            /\ last.calls = <<>>)

\* the server answered the request of this invocation with the text "pong"
AnsweredPong ==
    /\ last.calls # <<>>
    /\ last.calls[Len(last.calls)].ep = "/api/system/ping"
    /\ last.calls[Len(last.calls)].o = Plain("pong")

\* C27: system_ping returns a boolean whatever happens, True exactly when the
\* server answered with the text "pong" and False otherwise (client not
\* validated, error descriptor from the transport).
C27_PingIsBoolean ==
    last.op = "system_ping" =>
        (/\ last.ret.t = "bool"
         /\ last.ret.b <=> AnsweredPong)

\* the most recent operation sent a request that is not one of the validator's
SentOrdinaryRequest ==
    \E e \in LastCalls : e.ep \notin {AuthEndpoint, UserEndpoint, VersionEndpoint}

\* C28: in the async client, whenever the validator did not return True the
\* session is closed and reset, so no session stays set on an unvalidated
\* client, and an ordinary request goes out only after the server has
\* accepted the token.
C28_SessionOnlyAfterValidation ==
    impl = "base" =>
        /\ (Validated /\ last.validation # Bool(TRUE)) => session = "none"
        /\ SentOrdinaryRequest => authValid

\* what the transport returned to the most recent get_system_health on a
\* ready client
HealthAnswer == last.calls[Len(last.calls)].r

\* C29: get_system_health on a ready client returns a mapping and never
\* raises: an error descriptor is passed through, a response that is no
\* mapping gives an "Invalid response" descriptor, and a payload comes back
\* with health_status added (an unknown or missing health value reads
\* "Unknown health status"), also when nodes is no list or holds entries that
\* are no mappings.
C29_HealthIsAlwaysAMapping ==
    (last.op = "get_system_health" /\ last.ready /\ last.calls # <<>>) =>
        /\ last.ret.t = "dict"
        /\ IsError(HealthAnswer) => last.ret = HealthAnswer
        /\ HealthAnswer.t = "response" =>
               (IsError(last.ret) /\ last.ret.d["error"] = "Invalid response")
        /\ (HealthAnswer.t = "dict" /\ ~IsError(HealthAnswer)) =>
               /\ "health_status" \in DOMAIN last.ret.d
               /\ last.ret.d["health_status"] = HealthOf(HealthAnswer.d)

\* the most recent operation is get_source or get_scm_info called with start
\* and end arguments
LinesCall == last.op \in {"get_source", "get_scm_info"} /\ "start" \in DOMAIN last.args

\* the requests the most recent operation sent for source lines
LinesRequests == {e \in LastCalls : e.ep \in {SourceShowEndpoint, "/api/sources/scm"}}

\* the start is kept: given and not below 1
KeptStart == last.args.start.some /\ last.args.start.v >= 1

\* the end is refused: below 1, or below the kept start
RefusedEnd ==
    /\ last.args.end.some
    /\ last.args.end.v < 1 \/ (KeptStart /\ last.args.end.v < last.args.start.v)

\* C30: the request of get_source and get_scm_info never carries from < 1,
\* to < 1 or to < from: a start below 1 is dropped, an end below 1 or below
\* the kept start drops both bounds, a well-formed range goes out unchanged,
\* and on a ready client the request is sent in every case, with the file key.
C30_LineRangeIsWellFormed ==
    LinesCall =>
        /\ last.ready => Cardinality(LinesRequests) = 1 /\ Len(last.calls) = 1
        /\ \A e \in LinesRequests :
              /\ ParamValues(e.params, "key")
                    = <<ToolFileKey(last.args.project_key, last.args.file_path)>>
              /\ ParamValues(e.params, "from")
                    = IF KeptStart /\ ~RefusedEnd THEN <<last.args.start.v>> ELSE <<>>
              /\ ParamValues(e.params, "to")
                    = IF last.args.end.some /\ ~RefusedEnd THEN <<last.args.end.v>> ELSE <<>>
              /\ \A i \in DOMAIN ParamValues(e.params, "from") :
                    /\ ParamValues(e.params, "from")[i] >= 1
                    /\ \A j \in DOMAIN ParamValues(e.params, "to") :
                          ParamValues(e.params, "to")[j] >= ParamValues(e.params, "from")[i]
              /\ \A j \in DOMAIN ParamValues(e.params, "to") :
                    ParamValues(e.params, "to")[j] >= 1

\* get_scm_info(start=2, end=1) was sent without from and to
C30_Witness ==
    /\ last.op = "get_scm_info"
    /\ last.args.start = [some |-> TRUE, v |-> 2]
    /\ last.args.end = [some |-> TRUE, v |-> 1]
    /\ \E e \in LinesRequests :
          /\ e.ep = "/api/sources/scm"
          /\ ~Present(e.params, "from")
          /\ ~Present(e.params, "to")
          /\ Present(e.params, "key")

====
